---- MODULE Spec2Model ----
(***************************************************************************)
(* Model of src/bot.py: the two message handlers of the bot,               *)
(*   handle_media                 (recognition path, lines 121-328)        *)
(*   handle_link_simple_progress  (fetch path, lines 331-590)              *)
(* together with error_handler (lines 59-65), which the framework calls    *)
(* when a handler raises.  Each request is one coroutine; an action is the *)
(* code a coroutine runs between two awaits, or the completion of a call   *)
(* that blocks.  External collaborators (Telegram, yt-dlp, ffmpeg, the     *)
(* recognition endpoint, the file system) answer nondeterministically.     *)
(***************************************************************************)
EXTENDS Integers, Sequences, FiniteSets, TLC

\* ------------------------------------------------------------------ bounds

\* uuid4().hex[:8] is drawn from 1..MaxUuid (the code draws from 16^8 values).
MaxUuid == 2

\* Calls to Telegram (reply, edit, delete, get_file, upload) and to os.remove
\* that may fail in one run.  No request makes more than MaxFaults failing
\* calls, so Spec leaves no failure out.
MaxFaults == 8

\* The same budget for the runs with two requests in flight (SpecConc).
ConcFaults == 1

\* Ticks of the clock in one second.
TicksPerSecond == 2

\* Ticks that pass while downloads run.
MaxTicks == 4

\* Samples of one attempt that pass the throttle or report the end.
MaxSamples == 3

\* ------------------------------------------------- constants of the program

\* file_size_mb > 50 (line 507): the transport's upload ceiling, in MB.
TelegramLimitMB == 50

\* file_size < 1024 (line 202): smallest processed file accepted, in bytes.
MinProcessedBytes == 1024

\* ------------------------------------------------------------------ inputs

Requests == {"A", "B"}

None == "none"

\* message.voice / .audio / .video_note / .document (lines 145-174).
MediaKinds == {"voice", "audio", "video_note", "doc_audio", "doc_other", "nothing"}

\* Substrings looked for in the URL (lines 343, 448, 461, 471).
Domains == {"instagram.com", "tiktok.com", "youtube.com", "youtu.be", "other"}

Uuids == 1..MaxUuid

\* Sizes (MB) of a fetched file: at the ceiling, and scenario C's 120 MB.
FetchedSizesMB == {TelegramLimitMB, 120}

\* Sizes (bytes) of the processed clip: below and above MinProcessedBytes.
ProcessedSizes == {512, 4096}

\* ---------------------------------------------------------------- messages

\* A text shown to the user: a template t, the raw text interpolated into it
\* (None when the template interpolates no error text) and, for a positive
\* match, the elements of the summary.
Msg(t) == [t |-> t, raw |-> None, parts |-> {}]

MsgRestricted == Msg("Restricted")                     \* 129, 339
MsgProcessing == Msg("ProcessingYourAudio")            \* 135
MsgNotDocument == Msg("NotADocument")                  \* 170
MsgSendMedia == Msg("PleaseSendMedia")                 \* 173
MsgNoFile == Msg("CouldNotAccessFile")                 \* 177
MsgDownloading == Msg("DownloadingAudioFile")          \* 186
MsgConverting == Msg("ProcessingForRecognition")       \* 191
MsgConvertFailed == Msg("FailedToProcessAudio")        \* 193
MsgNoProcessed == Msg("AudioProcessingFailed")         \* 198
MsgTooSmall == Msg("ProcessedTooSmall")                \* 203
MsgRecognizing == Msg("RecognizingSong")               \* 209
MsgRateLimited == Msg("TooManyRequests")               \* 231
MsgHttpStatus == Msg("ServiceErrorHttp")               \* 235
MsgNotRecognized == Msg("SongNotRecognized")           \* 276
MsgApiLimit == Msg("ApiLimitReached")                  \* 290
MsgInvalidAudio == Msg("InvalidAudioFormat")           \* 292
MsgApiError == Msg("RecognitionFailedApiError")        \* 296
MsgTimedOut == Msg("RequestTimedOut")                  \* 300
MsgConnectionFailed == Msg("ConnectionFailed")         \* 303
MsgServiceUnavailable == Msg("ServiceUnavailable")     \* 306
MsgInvalidResponse == Msg("InvalidResponse")           \* 309
MsgUnexpected == Msg("RecognitionFailedUnexpected")    \* 312
MsgProcessingFailed == Msg("ProcessingFailed")         \* 326
MsgErrorOccurred == Msg("AnErrorOccurred")             \* 63
MsgPreparing == Msg("PreparingDownload")               \* 346
MsgExtracting == Msg("ExtractingVideoInformation")     \* 444
MsgInitializing == Msg("InitializingDownload")         \* 485
MsgUploading == Msg("UploadingToTelegram")             \* 499
MsgTooLarge == Msg("FileTooLarge")                     \* 508
MsgVideoFailed == Msg("VideoFailedTryingAudio")        \* 525
MsgUploadingAudio == Msg("UploadingAudioToTelegram")   \* 551

\* f"❌ **Recognition failed**\n\nError: {error_msg} (Code: {error_code})" (294):
\* the provider's error_message, when the response has one, is part of the text
\* (without one the text holds the default of line 286, "Unknown error").
MsgRecognitionFailed(error_msg) ==
    [t |-> "RecognitionFailedError", raw |-> error_msg, parts |-> {}]

\* error_msg of lines 565-588: one text per platform branch.
MsgDownloadFailed(domain) ==
    Msg(IF domain = "instagram.com" THEN "DownloadFailedInstagram"
        ELSE IF domain = "tiktok.com" THEN "DownloadFailedTikTok"
        ELSE "DownloadFailedGeneric")

\* ------------------------------------------- recognition: the pure mapping

\* Keys of the provider's result object that the code probes (lines 245-268),
\* a song being the set of the keys it holds with a non-empty value.
\* "spotify.external_urls" stands for song["spotify"]["external_urls"],
\* "spotify.url" for song["spotify"]["external_urls"]["spotify"],
\* "apple_music.url" for song["apple_music"]["url"], "deezer.link" for
\* song["deezer"]["link"].
SongFull ==
    {"title", "artist", "album", "release_date",
     "spotify", "spotify.external_urls", "spotify.url",
     "apple_music", "apple_music.url", "deezer", "deezer.link"}

Songs ==
    { SongFull,
      {"title", "artist"},
      {"title", "artist", "spotify", "spotify.external_urls", "deezer", "deezer.link"},
      {"album", "spotify", "apple_music", "apple_music.url"},
      {} }

\* The providers: the key of the entry, the keys below it that lead to the
\* URL, and the link the reply shows.
Providers ==
    { [entry |-> "spotify", path |-> {"spotify.external_urls", "spotify.url"},
       link |-> "link:spotify"],
      [entry |-> "apple_music", path |-> {"apple_music.url"}, link |-> "link:apple_music"],
      [entry |-> "deezer", path |-> {"deezer.link"}, link |-> "link:deezer"] }

\* A test that looks at the provider's entry only.
HasUrlEntryOnly(song, p) == p.entry \in song

\* The conditions of lines 259, 262, 265: song.get(entry) and the .get chain
\* below it, each with a default, so that an absent key is falsy.
HasUrl(song, p) == p.entry \in song /\ p.path \subseteq song

\* The subscripts of lines 260, 263, 266 raise KeyError on an absent key.
UrlOf(song, p) ==
    IF p.entry \in song /\ p.path \subseteq song THEN p.link ELSE "KeyError"

\* links (lines 259-268): one entry per provider whose object and inner URL
\* are both present.
Links(song) == {UrlOf(song, p) : p \in {q \in Providers : HasUrl(song, q)}}

\* reply for a positive match (lines 244-273).
FormatReply(song) ==
    [t |-> "Recognized", raw |-> None,
     parts |->
        {IF "title" \in song THEN "title" ELSE "Unknown Title"}
        \cup {IF "artist" \in song THEN "artist" ELSE "Unknown Artist"}
        \cup (IF "album" \in song THEN {"album"} ELSE {})
        \cup (IF "release_date" \in song THEN {"release_date"} ELSE {})
        \cup (IF Links(song) # {} THEN Links(song) ELSE {"search"})]

\* error_message texts of the provider, with the keywords each contains in
\* lower case (the tests of lines 289 and 291).
ErrorMessages ==
    {"Insufficient balance", "Rate limit exceeded", "Invalid file",
     "Wrong API token", "Unknown error"}

Keywords(error_msg) ==
    CASE error_msg = "Insufficient balance" -> {"insufficient"}
      [] error_msg = "Rate limit exceeded" -> {"limit"}
      [] error_msg = "Invalid file" -> {"invalid"}
      [] OTHER -> {}

\* An exception is the set of classes it is an instance of.
ExcReadTimeout == {"Timeout", "RequestException", "Exception"}
ExcConnectTimeout == {"ConnectionError", "Timeout", "RequestException", "Exception"}
ExcConnectionError == {"ConnectionError", "RequestException", "Exception"}
ExcRequestOther == {"RequestException", "Exception"}
ExcOSError == {"Exception"}
ExcAttributeError == {"Exception"}
\* telegram.error.TelegramError, raised by a failed edit_text.
ExcTelegramError == {"Exception"}
ExcKeyError == {"Exception"}
\* response.json() on a body that is not JSON raises json.JSONDecodeError (a
\* ValueError) with requests < 2.27 and requests.exceptions.JSONDecodeError
\* (a RequestException and a ValueError) from 2.27 on; the repository pins
\* no version.
ExcJsonOld == {"ValueError", "Exception"}
ExcJsonNew == {"RequestException", "ValueError", "Exception"}

PostExceptions ==
    {ExcReadTimeout, ExcConnectTimeout, ExcConnectionError, ExcRequestOther, ExcOSError}

\* The clauses with the broad RequestException clause placed first.
ExceptClausesBroadFirst ==
    << [class |-> "RequestException", reply |-> MsgServiceUnavailable],
       [class |-> "Timeout", reply |-> MsgTimedOut],
       [class |-> "ConnectionError", reply |-> MsgConnectionFailed],
       [class |-> "ValueError", reply |-> MsgInvalidResponse],
       [class |-> "Exception", reply |-> MsgUnexpected] >>

\* The except clauses of lines 298-312, in source order.
ExceptClauses ==
    << [class |-> "Timeout", reply |-> MsgTimedOut],
       [class |-> "ConnectionError", reply |-> MsgConnectionFailed],
       [class |-> "RequestException", reply |-> MsgServiceUnavailable],
       [class |-> "ValueError", reply |-> MsgInvalidResponse],
       [class |-> "Exception", reply |-> MsgUnexpected] >>

\* The reply of the first clause that matches the exception.
ExceptReply(exc) ==
    LET hits == {i \in DOMAIN ExceptClauses : ExceptClauses[i].class \in exc}
        first == CHOOSE i \in hits : \A j \in hits : i <= j
    IN  ExceptClauses[first].reply

\* A response of the endpoint: HTTP status; whether the body is JSON (and
\* what json() raises when it is not); whether it is an object; its status,
\* result and error members.
NoResult == [present |-> FALSE, song |-> {}]
NoError == [isDict |-> TRUE, hasMsg |-> FALSE, msg |-> "Unknown error"]

Body(status, result, error) ==
    [json |-> TRUE, jsonExc |-> {}, isDict |-> TRUE, status |-> status,
     result |-> result, error |-> error]

Bodies ==
    { Body("success", [present |-> TRUE, song |-> s], NoError) : s \in Songs }
    \cup { Body("success", NoResult, NoError) }
    \cup { Body("error", NoResult, [isDict |-> TRUE, hasMsg |-> TRUE, msg |-> m]) :
             m \in ErrorMessages \ {"Unknown error"} }
    \cup { Body("error", NoResult, NoError),
           Body("error", NoResult, [isDict |-> FALSE, hasMsg |-> FALSE, msg |-> "Unknown error"]) }
    \cup { [json |-> TRUE, jsonExc |-> {}, isDict |-> FALSE, status |-> None,
            result |-> NoResult, error |-> NoError] }
    \cup { [json |-> FALSE, jsonExc |-> x, isDict |-> FALSE, status |-> None,
            result |-> NoResult, error |-> NoError] : x \in {ExcJsonOld, ExcJsonNew} }

HttpStatuses == {200, 429, 500}

Responses == [http : HttpStatuses, body : Bodies]

\* reply of lines 242-296 for a decoded JSON object.
ParseResult(body) ==
    IF body.status = "success"
    THEN IF body.result.present /\ body.result.song # {}
         THEN IF "KeyError" \in FormatReply(body.result.song).parts
              THEN ExceptReply(ExcKeyError)
              ELSE FormatReply(body.result.song)
         ELSE MsgNotRecognized
    ELSE IF body.error.isDict
         THEN LET error_msg == IF body.error.hasMsg THEN body.error.msg ELSE "Unknown error"
              IN  IF "insufficient" \in Keywords(error_msg) \/ "limit" \in Keywords(error_msg)
                  THEN MsgApiLimit
                  ELSE IF "invalid" \in Keywords(error_msg)
                       THEN MsgInvalidAudio
                       ELSE IF body.error.hasMsg
                            THEN MsgRecognitionFailed(error_msg)
                            ELSE Msg("RecognitionFailedError")
         ELSE MsgApiError

\* MapOutcome without the test of line 230: 429 handled as any non-200.
MapOutcomeNo429(outcome) ==
    IF outcome.raised
    THEN [exit |-> "reply", msg |-> ExceptReply(outcome.exc)]
    ELSE IF outcome.resp.http # 200
         THEN [exit |-> "return", msg |-> MsgHttpStatus]
         ELSE IF ~outcome.resp.body.json
              THEN [exit |-> "reply", msg |-> ExceptReply(outcome.resp.body.jsonExc)]
              ELSE IF ~outcome.resp.body.isDict
                   THEN [exit |-> "reply", msg |-> ExceptReply(ExcAttributeError)]
                   ELSE [exit |-> "reply", msg |-> ParseResult(outcome.resp.body)]

\* Lines 228-312: what the code between the POST and the next await decides.
\* exit "return": edit the status with msg and return (lines 231-232, 235-236);
\* exit "reply": go on to send msg as the result (line 316).
\* outcome is [raised, exc, resp].
MapOutcome(outcome) ==
    IF outcome.raised
    THEN [exit |-> "reply", msg |-> ExceptReply(outcome.exc)]
    ELSE IF outcome.resp.http = 429
         THEN [exit |-> "return", msg |-> MsgRateLimited]
         ELSE IF outcome.resp.http # 200
              THEN [exit |-> "return", msg |-> MsgHttpStatus]
              ELSE IF ~outcome.resp.body.json
                   THEN [exit |-> "reply", msg |-> ExceptReply(outcome.resp.body.jsonExc)]
                   ELSE IF ~outcome.resp.body.isDict
                        THEN [exit |-> "reply", msg |-> ExceptReply(ExcAttributeError)]
                        ELSE [exit |-> "reply", msg |-> ParseResult(outcome.resp.body)]

NoResponse == [http |-> 0, body |-> Body(None, NoResult, NoError)]

PostOutcomes ==
    { [raised |-> TRUE, exc |-> x, resp |-> NoResponse] : x \in PostExceptions }
    \cup { [raised |-> FALSE, exc |-> {}, resp |-> r] : r \in Responses }

\* ------------------------------------------------------------------- state

VARIABLES
    inp,     \* inp[r]: the inbound unit of request r (None when r never arrives)
    pc,      \* pc[r]: the call request r's coroutine performs next
    loc,     \* loc[r]: the handler's local variables
    shown,   \* shown[r]: the status message (status_msg) as the user sees it
    disk,    \* the file system: existing path -> size
    loop,    \* the request whose blocking call occupies the event-loop thread
    trace,   \* trace[r]: what request r has done so far, in order
    faultsLeft, \* how many more calls to Telegram or to os.remove may fail
    progress_data,  \* progress_data[r] (lines 348-355): last_update and status
    now,     \* what time.time() returns, in ticks
    samples  \* samples[r]: the samples of the download r has in progress that
             \* passed the throttle of line 365 or reported the end, in order

vars == <<inp, pc, loc, shown, disk, loop, trace, faultsLeft, progress_data, now, samples>>

hookvars == <<progress_data, now, samples>>

\* progress_data of lines 348-355, and after the reset of line 530.
InitProgress == [last_update |-> 0, status |-> "starting"]

\* time.time() is far beyond one second: the first value read passes the
\* test of line 365 against last_update = 0.
StartTime == TicksPerSecond

HookInit ==
    /\ progress_data = [r \in Requests |-> InitProgress]
    /\ now = StartTime
    /\ samples = [r \in Requests |-> << >>]

\* One inbound unit: which handler the filters of lines 658-659 route it to,
\* whether its chat passes the allow-list test (lines 127, 337), the kind of
\* attachment, the platform substring found in the URL.
MediaInputs ==
    [handler : {"media"}, allowed : BOOLEAN, kind : MediaKinds, domain : {None}]

LinkInputs ==
    [handler : {"link"}, allowed : BOOLEAN, kind : {None}, domain : Domains]

Absent == [handler |-> None, allowed |-> FALSE, kind |-> None, domain |-> None]

\* Paths.  tempfile.TemporaryDirectory() (line 138) is a directory of its
\* own for every request; "downloads" (lines 18-19) is shared by all.
TmpDir(r) == <<"tmp", r>>
Downloads == <<"downloads", "">>

NoPath == [dir |-> <<"", "">>, stem |-> "", uid |-> 0, ext |-> ""]

\* file_name of lines 143-167.
FileName(kind) ==
    CASE kind = "voice" -> "voice"
      [] kind = "audio" -> "audio"
      [] kind = "video_note" -> "video_note"
      [] kind = "doc_audio" -> "document"
      [] OTHER -> "audio"

\* ext of lines 147-166 (a document keeps its own extension, or .mp3).
Ext(kind) ==
    CASE kind = "voice" -> ".ogg"
      [] kind = "audio" -> ".mp3"
      [] kind = "video_note" -> ".mp4"
      [] OTHER -> ".mp3"

\* original_path and processed_path (lines 181-183).
OriginalPath(r, kind, u) ==
    [dir |-> TmpDir(r), stem |-> FileName(kind), uid |-> u, ext |-> Ext(kind)]

ProcessedPath(r, kind, u) ==
    [dir |-> TmpDir(r), stem |-> FileName(kind), uid |-> u, ext |-> "_processed.mp3"]

\* outtmpl of lines 451, 464, 474, 534: downloads/<title>-<uuid>.<ext>; the
\* title is the one of the page behind the URL.
OutPath(domain, u, ext) ==
    [dir |-> Downloads, stem |-> domain, uid |-> u, ext |-> ext]

Exists(p) == p \in DOMAIN disk

WriteFile(d, p, size) == [q \in DOMAIN d \cup {p} |-> IF q = p THEN size ELSE d[q]]

RemoveFile(d, p) == [q \in DOMAIN d \ {p} |-> d[q]]

\* Leaving the with-block of line 138 removes the directory and its files.
CleanupTempDir(d, r) == [q \in {x \in DOMAIN d : x.dir # TmpDir(r)} |-> d[q]]

NoMsg == Msg("")

NoOutcome == [raised |-> FALSE, exc |-> {}, resp |-> NoResponse]

InitLoc ==
    [ret |-> NoMsg,              \* the text of an "edit and return" exit
     reply |-> NoMsg,            \* reply (lines 251-312)
     outcome |-> NoOutcome,      \* what requests.post / response.json produced
     unique_id |-> 0,            \* uuid4().hex[:8] of lines 181, 451-474, 534
     original_path |-> NoPath,
     processed_path |-> NoPath,
     video_path |-> NoPath,
     audio_path |-> NoPath,
     loopBound |-> FALSE,        \* whether line 496 has assigned `loop`
     ydl_format |-> None]        \* "format" of ydl_opts / ydl_opts_audio

NoStatus == [state |-> "absent", text |-> NoMsg]

\* Events of a trace.
Ev(e, a) == [e |-> e, a |-> a]

\* The units the filters of lines 658-659 let through.  Filters VOICE, AUDIO,
\* VIDEO_NOTE and Document.AUDIO pass only the four valid kinds; the Regex
\* of line 659 has unescaped dots, so it also passes a text that holds none
\* of the four substrings of line 343 ("other").
ValidKinds == {"voice", "audio", "video_note", "doc_audio"}

RoutedInputs ==
    {i \in MediaInputs : i.kind \in ValidKinds}
    \cup LinkInputs

\* One request, A, handled from arrival to the end.
Init ==
    /\ inp \in [Requests -> RoutedInputs \cup {Absent}]
    /\ inp["A"] # Absent
    /\ inp["B"] = Absent
    /\ pc = [r \in Requests |-> IF inp[r] = Absent THEN "absent" ELSE "arrived"]
    /\ loc = [r \in Requests |-> InitLoc]
    /\ shown = [r \in Requests |-> NoStatus]
    /\ disk = << >>
    /\ loop = None
    /\ trace = [r \in Requests |-> << >>]
    /\ faultsLeft = MaxFaults
    /\ HookInit

\* ------------------------------------------------------------ step helpers

Goto(r, label) == pc' = [pc EXCEPT ![r] = label]

Log(r, events) == trace' = [trace EXCEPT ![r] = @ \o events]

Show(r, msg) == shown' = [shown EXCEPT ![r] = [state |-> "live", text |-> msg]]

\* The coroutine of r can run: the event-loop thread is not inside a
\* blocking call.
Runs(r, label) == pc[r] = label /\ loop = None

\* The results a call to Telegram (or to os.remove) can have: TRUE, it
\* returns; FALSE, it raises.
CallResults == IF faultsLeft > 0 THEN BOOLEAN ELSE {TRUE}

Spend(ok) == faultsLeft' = IF ok THEN faultsLeft ELSE faultsLeft - 1

\* status_msg.edit_text(msg) followed by the code up to the next call:
\* on success the user sees msg and r goes to `next`, on failure the call
\* raises and r goes to `handler`.
EditThen(r, msg, next, handler) ==
    \E ok \in CallResults :
        Spend(ok) /\
        IF ok
        THEN /\ Show(r, msg)
             /\ Log(r, <<Ev("msg", msg)>>)
             /\ Goto(r, next)
        ELSE /\ Log(r, <<Ev("xfail", msg)>>)
             /\ Goto(r, handler)
             /\ UNCHANGED shown

\* A handler without an allow-list test.
BlockedNever(input) == FALSE

\* Lines 127 and 337: ALLOWED_CHATS is non-empty and the chat is not in it.
Blocked(input) == ~input.allowed

\* ------------------------------------------------ handle_media (121-328)

\* Lines 121-135 and the classification of lines 145-174 up to the first
\* call of the try block.  The allow-list test, then the acknowledgment
\* reply_text; a failure of either reply leaves the handler as an exception.
MStart(r) ==
    /\ Runs(r, "arrived")
    /\ inp[r].handler = "media"
    /\ \E ok \in CallResults :
        Spend(ok) /\
        IF Blocked(inp[r])
        THEN /\ Log(r, <<Ev(IF ok THEN "msg" ELSE "xfail", MsgRestricted)>>)
             /\ Goto(r, IF ok THEN "done" ELSE "error_handler")
             /\ UNCHANGED <<shown, loc>>
        ELSE IF ~ok
        THEN /\ Log(r, <<Ev("xfail", MsgProcessing)>>)
             /\ Goto(r, "error_handler")
             /\ UNCHANGED <<shown, loc>>
        ELSE /\ Show(r, MsgProcessing)
             /\ Log(r, <<Ev("msg", MsgProcessing)>>)
             /\ IF inp[r].kind \in ValidKinds
                THEN Goto(r, "m_get_file") /\ UNCHANGED loc
                ELSE /\ Goto(r, "m_edit_return")
                     /\ loc' = [loc EXCEPT ![r].ret =
                                  IF inp[r].kind = "doc_other"
                                  THEN MsgNotDocument ELSE MsgSendMedia]
    /\ UNCHANGED <<inp, disk, loop>>
    /\ UNCHANGED hookvars

\* get_file() of lines 146-162, then lines 176-183.
MGetFile(r) ==
    /\ Runs(r, "m_get_file")
    /\ \E res \in {"file", "nofile"} \cup (IF faultsLeft > 0 THEN {"raise"} ELSE {}) :
        Spend(res # "raise") /\
        CASE res = "file" ->
               \E u \in Uuids :
                 /\ loc' = [loc EXCEPT ![r].unique_id = u,
                                       ![r].original_path = OriginalPath(r, inp[r].kind, u),
                                       ![r].processed_path = ProcessedPath(r, inp[r].kind, u)]
                 /\ Goto(r, "m_edit_downloading")
                 /\ UNCHANGED trace
          [] res = "nofile" ->
                 /\ loc' = [loc EXCEPT ![r].ret = MsgNoFile]
                 /\ Goto(r, "m_edit_return")
                 /\ Log(r, <<Ev("stagefail", "get_file")>>)
          [] res = "raise" ->
                 /\ Log(r, <<Ev("stagefail", "get_file")>>)
                 /\ Goto(r, "m_except")
                 /\ UNCHANGED loc
    /\ UNCHANGED <<inp, shown, disk, loop>>
    /\ UNCHANGED hookvars

\* "await status_msg.edit_text(...); return" of lines 170-171, 173-174,
\* 177-178, 193-194, 198-199, 203-204.  The return leaves the with-block.
MEditReturn(r) ==
    /\ Runs(r, "m_edit_return")
    /\ \E ok \in CallResults :
        Spend(ok) /\
        IF ok
        THEN /\ Show(r, loc[r].ret)
             /\ Log(r, <<Ev("msg", loc[r].ret)>>)
             /\ Goto(r, "done")
             /\ disk' = CleanupTempDir(disk, r)
        ELSE /\ Log(r, <<Ev("xfail", loc[r].ret)>>)
             /\ Goto(r, "m_except")
             /\ UNCHANGED <<shown, disk>>
    /\ UNCHANGED <<inp, loc, loop>>
    /\ UNCHANGED hookvars

\* The download started without its status update.
MEditDownloadingSilent(r) ==
    /\ Runs(r, "m_edit_downloading")
    /\ Goto(r, "m_download")
    /\ UNCHANGED <<inp, loc, shown, disk, loop, trace, faultsLeft>>
    /\ UNCHANGED hookvars

\* Line 186.
MEditDownloading(r) ==
    /\ Runs(r, "m_edit_downloading")
    /\ EditThen(r, MsgDownloading, "m_download", "m_except")
    /\ UNCHANGED <<inp, loc, disk, loop>>
    /\ UNCHANGED hookvars

\* Line 187: file.download_to_drive(original_path).  A failed download may
\* leave a partial file behind.
MDownload(r) ==
    /\ Runs(r, "m_download")
    /\ \E res \in {"ok", "raise", "raise_partial"} :
        /\ disk' = IF res = "raise" THEN disk
                   ELSE WriteFile(disk, loc[r].original_path, 1)
        /\ Log(r, <<Ev("stage", "original_download")>>
                  \o (IF res = "raise" THEN << >>
                      ELSE <<Ev("write", [path |-> loc[r].original_path, size |-> 1])>>)
                  \o (IF res = "ok" THEN << >>
                      ELSE <<Ev("stagefail", "original_download")>>))
        /\ Goto(r, IF res = "ok" THEN "m_edit_converting" ELSE "m_except")
    /\ UNCHANGED <<inp, loc, shown, loop, faultsLeft>>
    /\ UNCHANGED hookvars

\* Line 191, then line 192 calls process_audio_for_recognition directly: the
\* transcode runs on the event-loop thread.
MEditConverting(r) ==
    /\ Runs(r, "m_edit_converting")
    /\ \E ok \in CallResults :
        Spend(ok) /\
        IF ok
        THEN /\ Show(r, MsgConverting)
             /\ Log(r, <<Ev("msg", MsgConverting), Ev("stage", "transcode")>>)
             /\ Goto(r, "m_transcoding")
             /\ loop' = r
        ELSE /\ Log(r, <<Ev("xfail", MsgConverting)>>)
             /\ Goto(r, "m_except")
             /\ UNCHANGED <<shown, loop>>
    /\ UNCHANGED <<inp, loc, disk>>
    /\ UNCHANGED hookvars

\* What process_audio_for_recognition can produce: its return value, whether
\* processed_path exists afterwards, and the size of that file.
TranscodeResults ==
    { [returns |-> FALSE, written |-> FALSE, size |-> 0],
      [returns |-> FALSE, written |-> TRUE, size |-> 0],
      [returns |-> TRUE, written |-> FALSE, size |-> 0] }
    \cup { [returns |-> TRUE, written |-> TRUE, size |-> n] : n \in ProcessedSizes }

\* process_audio_for_recognition returns (lines 72-118), then lines 192-204.
\* It returns False on any exception (an export that failed may have
\* written part of the file); after True the file is looked up and measured.
MTranscodeEnd(r) ==
    /\ pc[r] = "m_transcoding"
    /\ loop = r
    /\ loop' = None
    /\ \E res \in TranscodeResults :
        LET written == res.written
            size == res.size
            ret == IF ~res.returns THEN MsgConvertFailed
                   ELSE IF ~res.written THEN MsgNoProcessed
                   ELSE IF size < MinProcessedBytes THEN MsgTooSmall
                   ELSE NoMsg
        IN  /\ disk' = IF written THEN WriteFile(disk, loc[r].processed_path, size)
                       ELSE disk
            /\ Log(r, (IF written THEN <<Ev("write", [path |-> loc[r].processed_path, size |-> size])>>
                       ELSE << >>)
                      \o (IF ret # NoMsg THEN <<Ev("stagefail", "transcode")>> ELSE << >>))
            /\ loc' = [loc EXCEPT ![r].ret = ret]
            /\ Goto(r, IF ret # NoMsg THEN "m_edit_return" ELSE "m_edit_recognizing")
    /\ UNCHANGED <<inp, shown, faultsLeft>>
    /\ UNCHANGED hookvars

\* Line 209, then lines 211-226 call open() and requests.post directly: the
\* HTTP call runs on the event-loop thread.
MEditRecognizing(r) ==
    /\ Runs(r, "m_edit_recognizing")
    /\ \E ok \in CallResults :
        Spend(ok) /\
        IF ok
        THEN /\ Show(r, MsgRecognizing)
             /\ Log(r, <<Ev("msg", MsgRecognizing), Ev("stage", "recognize")>>)
             /\ Goto(r, "m_posting")
             /\ loop' = r
        ELSE /\ Log(r, <<Ev("xfail", MsgRecognizing)>>)
             /\ Goto(r, "m_except")
             /\ UNCHANGED <<shown, loop>>
    /\ UNCHANGED <<inp, loc, disk>>
    /\ UNCHANGED hookvars

\* MPostEnd with a retry: a POST that raised is sent again.
MPostEndRetry(r) ==
    /\ pc[r] = "m_posting"
    /\ loop = r
    /\ \E outcome \in PostOutcomes :
        LET m == MapOutcome(outcome)
        IN  /\ loc' = [loc EXCEPT ![r].outcome = outcome,
                                  ![r].ret = IF m.exit = "return" THEN m.msg ELSE @,
                                  ![r].reply = IF m.exit = "reply" THEN m.msg ELSE @]
            /\ Log(r, <<Ev("http", "post")>>)
            /\ Goto(r, IF outcome.raised THEN "m_posting"
                       ELSE IF m.exit = "return" THEN "m_edit_http" ELSE "m_send")
            /\ loop' = IF outcome.raised THEN r ELSE None
    /\ UNCHANGED <<inp, shown, disk, faultsLeft>>
    /\ UNCHANGED hookvars

\* The POST returns or raises (lines 212-226), then lines 228-312.  An
\* exception that is a plain Exception comes from open(): no request was sent.
MPostEnd(r) ==
    /\ pc[r] = "m_posting"
    /\ loop = r
    /\ loop' = None
    /\ \E outcome \in PostOutcomes :
        LET m == MapOutcome(outcome)
            failed == outcome.raised \/ outcome.resp.http # 200
                      \/ m.msg.t \notin {"Recognized", "SongNotRecognized"}
        IN  /\ loc' = [loc EXCEPT ![r].outcome = outcome,
                                  ![r].ret = IF m.exit = "return" THEN m.msg ELSE @,
                                  ![r].reply = IF m.exit = "reply" THEN m.msg ELSE @]
            /\ Log(r, (IF outcome.raised /\ outcome.exc = ExcOSError
                       THEN << >> ELSE <<Ev("http", "post")>>)
                      \o (IF failed THEN <<Ev("stagefail", "recognize")>> ELSE << >>))
            /\ Goto(r, IF m.exit = "return" THEN "m_edit_http" ELSE "m_send")
    /\ UNCHANGED <<inp, shown, disk, faultsLeft>>
    /\ UNCHANGED hookvars

\* "await status_msg.edit_text(...); return" of lines 231-232 and 235-236.
\* These edits are inside the try block of line 211: a failure is caught by
\* the clause of line 310, which sets reply, and the result is sent (316).
MEditHttpStatus(r) ==
    /\ Runs(r, "m_edit_http")
    /\ \E ok \in CallResults :
        Spend(ok) /\
        IF ok
        THEN /\ Show(r, loc[r].ret)
             /\ Log(r, <<Ev("msg", loc[r].ret)>>)
             /\ Goto(r, "done")
             /\ disk' = CleanupTempDir(disk, r)
             /\ UNCHANGED loc
        ELSE /\ Log(r, <<Ev("xfail", loc[r].ret)>>)
             /\ loc' = [loc EXCEPT ![r].reply = ExceptReply(ExcTelegramError)]
             /\ Goto(r, "m_send")
             /\ UNCHANGED <<shown, disk>>
    /\ UNCHANGED <<inp, loop>>
    /\ UNCHANGED hookvars

\* Lines 315-319: the result, as Markdown.
MSend(r) ==
    /\ Runs(r, "m_send")
    /\ \E ok \in CallResults :
        Spend(ok) /\
        IF ok
        THEN /\ Show(r, loc[r].reply)
             /\ Log(r, <<Ev("msg", loc[r].reply)>>)
             /\ Goto(r, "done")
             /\ disk' = CleanupTempDir(disk, r)
        ELSE /\ Log(r, <<Ev("xfail", loc[r].reply)>>)
             /\ Goto(r, "m_send_plain")
             /\ UNCHANGED <<shown, disk>>
    /\ UNCHANGED <<inp, loc, loop>>
    /\ UNCHANGED hookvars

\* Lines 320-321: the result again, without Markdown.
MSendPlain(r) ==
    /\ Runs(r, "m_send_plain")
    /\ \E ok \in CallResults :
        Spend(ok) /\
        IF ok
        THEN /\ Show(r, loc[r].reply)
             /\ Log(r, <<Ev("msg", loc[r].reply)>>)
             /\ Goto(r, "done")
             /\ disk' = CleanupTempDir(disk, r)
        ELSE /\ Log(r, <<Ev("xfail", loc[r].reply)>>)
             /\ Goto(r, "m_except")
             /\ UNCHANGED <<shown, disk>>
    /\ UNCHANGED <<inp, loc, loop>>
    /\ UNCHANGED hookvars

\* Lines 323-328: the handler of every exception of the try block; a
\* failure of its own edit is swallowed.  Then the with-block is left.
MExcept(r) ==
    /\ Runs(r, "m_except")
    /\ \E ok \in CallResults :
        Spend(ok) /\
        IF ok
        THEN /\ Show(r, MsgProcessingFailed)
             /\ Log(r, <<Ev("msg", MsgProcessingFailed)>>)
        ELSE /\ Log(r, <<Ev("xfail", MsgProcessingFailed)>>)
             /\ UNCHANGED shown
    /\ Goto(r, "done")
    /\ disk' = CleanupTempDir(disk, r)
    /\ UNCHANGED <<inp, loc, loop>>
    /\ UNCHANGED hookvars

\* ------------------------------------------------ error_handler (59-65)

\* The framework calls error_handler with the exception a handler let out;
\* the failure of its reply is logged.
ErrorHandler(r) ==
    /\ Runs(r, "error_handler")
    /\ \E ok \in CallResults :
        /\ Spend(ok)
        /\ Log(r, <<Ev(IF ok THEN "msg" ELSE "xfail", MsgErrorOccurred)>>)
    /\ Goto(r, "done")
    /\ UNCHANGED <<inp, loc, shown, disk, loop>>
    /\ UNCHANGED hookvars

MediaStep(r) ==
    \/ MStart(r)
    \/ MGetFile(r)
    \/ MEditReturn(r)
    \/ MEditDownloading(r)
    \/ MDownload(r)
    \/ MEditConverting(r)
    \/ MTranscodeEnd(r)
    \/ MEditRecognizing(r)
    \/ MPostEnd(r)
    \/ MEditHttpStatus(r)
    \/ MSend(r)
    \/ MSendPlain(r)
    \/ MExcept(r)

\* --------------------------------- handle_link_simple_progress (331-590)

\* What one yt-dlp run (download_video, lines 487-494; download_audio, lines
\* 544-547) can produce: it raises, leaving nothing or a partial file; or it
\* returns prepare_filename(info), which is the file it wrote, or is not
\* (a merged or post-processed file carries another extension).
\* ext is the extension of the returned name, wrote the one of the file
\* written (None: no file), mb its size.
DownloadResults(exts) ==
    { [raised |-> TRUE, ext |-> None, wrote |-> None, mb |-> 0],
      [raised |-> TRUE, ext |-> None, wrote |-> "part", mb |-> 1] }
    \cup { [raised |-> FALSE, ext |-> e, wrote |-> e, mb |-> n] :
             e \in exts, n \in FetchedSizesMB }
    \cup { [raised |-> FALSE, ext |-> "webm", wrote |-> "mkv", mb |-> TelegramLimitMB] }

VideoExts == {"mp4", "webm"}
AudioExts == {"m4a"}

\* The else branch used for every URL: the selector of line 463.
FormatSelectorNoGeneric(domain) ==
    IF domain = "instagram.com" THEN "best[ext=mp4]/best[height<=720]/best"
    ELSE "best[ext=mp4]/best"

\* "format" of ydl_opts (lines 448-480): the branch of the first substring
\* found in the URL; the else branch (commented "YouTube") holds the
\* size-capped selector.
FormatSelector(domain) ==
    IF domain = "instagram.com" THEN "best[ext=mp4]/best[height<=720]/best"
    ELSE IF domain = "tiktok.com" THEN "best[ext=mp4]/best"
    ELSE "bestvideo[ext=mp4][filesize<100M]+bestaudio[ext=m4a]/best[ext=mp4][filesize<100M]/best[filesize<100M]"

\* "format" of ydl_opts_audio (line 533).
AudioFormat == "bestaudio[ext=m4a]/bestaudio/best"

\* Lines 512-515: reply_video for a name ending in .mp4, reply_document for
\* any other.
S1UploadMethod(path) == IF path.ext = "mp4" THEN "video" ELSE "document"

\* Stage 2 choosing its method as Stage 1 does.
S2UploadMethodByExt(path) == IF path.ext = "mp4" THEN "video" ELSE "document"

\* Line 556: reply_audio, whatever the name.
S2UploadMethod(path) == "audio"

\* Lines 331-346.
LStart(r) ==
    /\ Runs(r, "arrived")
    /\ inp[r].handler = "link"
    /\ \E ok \in CallResults :
        IF Blocked(inp[r])
        THEN /\ Spend(ok)
             /\ Log(r, <<Ev(IF ok THEN "msg" ELSE "xfail", MsgRestricted)>>)
             /\ Goto(r, IF ok THEN "done" ELSE "error_handler")
             /\ UNCHANGED shown
        ELSE IF inp[r].domain = "other"
        THEN /\ Goto(r, "done")
             /\ UNCHANGED <<shown, trace, faultsLeft>>
        ELSE Spend(ok) /\
        IF ok
        THEN /\ Show(r, MsgPreparing)
             /\ Log(r, <<Ev("msg", MsgPreparing)>>)
             /\ Goto(r, "l_edit_extracting")
        ELSE /\ Log(r, <<Ev("xfail", MsgPreparing)>>)
             /\ Goto(r, "error_handler")
             /\ UNCHANGED shown
    /\ UNCHANGED <<inp, loc, disk, loop>>
    /\ UNCHANGED hookvars

\* Lines 444-483: the edit, the sleep, then ydl_opts with a fresh uuid.
LEditExtracting(r) ==
    /\ Runs(r, "l_edit_extracting")
    /\ \E ok \in CallResults :
        Spend(ok) /\
        IF ok
        THEN /\ Show(r, MsgExtracting)
             /\ Log(r, <<Ev("msg", MsgExtracting)>>)
             /\ \E u \in Uuids :
                  loc' = [loc EXCEPT ![r].unique_id = u,
                                     ![r].ydl_format = FormatSelector(inp[r].domain)]
             /\ Goto(r, "l_edit_initializing")
        ELSE /\ Log(r, <<Ev("xfail", MsgExtracting)>>)
             /\ Goto(r, "l_edit_video_failed")
             /\ UNCHANGED <<shown, loc>>
    /\ UNCHANGED <<inp, disk, loop>>
    /\ UNCHANGED hookvars

\* Lines 485-497: the edit, then `loop` is bound and download_video is
\* handed to the executor.
LEditInitializing(r) ==
    /\ Runs(r, "l_edit_initializing")
    /\ \E ok \in CallResults :
        Spend(ok) /\
        IF ok
        THEN /\ Show(r, MsgInitializing)
             /\ Log(r, <<Ev("msg", MsgInitializing), Ev("stage", "s1_download")>>)
             /\ loc' = [loc EXCEPT ![r].loopBound = TRUE]
             /\ Goto(r, "s1_downloading")
        ELSE /\ Log(r, <<Ev("xfail", MsgInitializing)>>)
             /\ Goto(r, "l_edit_video_failed")
             /\ UNCHANGED <<shown, loc>>
    /\ UNCHANGED <<inp, disk, loop>>
    /\ UNCHANGED hookvars

\* download_video ends in the executor and the coroutine resumes (497).
S1DownloadEnd(r) ==
    /\ Runs(r, "s1_downloading")
    /\ \E res \in DownloadResults(VideoExts) :
        LET written == OutPath(inp[r].domain, loc[r].unique_id, res.wrote)
            returned == OutPath(inp[r].domain, loc[r].unique_id, res.ext)
        IN  /\ disk' = IF res.wrote = None THEN disk ELSE WriteFile(disk, written, res.mb)
            /\ Log(r, (IF res.wrote = None THEN << >>
                       ELSE <<Ev("write", [path |-> written, size |-> res.mb])>>)
                      \o (IF res.raised THEN <<Ev("stagefail", "s1_download")>> ELSE << >>))
            /\ loc' = [loc EXCEPT ![r].video_path = IF res.raised THEN @ ELSE returned]
            /\ Goto(r, IF res.raised THEN "l_edit_video_failed" ELSE "l_edit_uploading")
    /\ UNCHANGED <<inp, shown, loop, faultsLeft>>
    /\ samples' = [samples EXCEPT ![r] = << >>]
    /\ UNCHANGED <<progress_data, now>>

\* AfterFetch without the size test of line 507.
AfterFetchNoSizeCheck(r) ==
    IF ~Exists(loc[r].video_path) THEN "l_edit_video_failed" ELSE "s1_upload"

\* Lines 502-507 and 520-521: the file is looked up and measured.  The call
\* that follows: the upload, the size message, or (Exception("Video file not
\* found")) the edit of the exception handler.
AfterFetch(r) ==
    IF ~Exists(loc[r].video_path) THEN "l_edit_video_failed"
    ELSE IF disk[loc[r].video_path] > TelegramLimitMB THEN "l_edit_too_large"
    ELSE "s1_upload"

\* The status edit followed by the delete of line 518, the upload left out.
LEditUploadingNoUpload(r) ==
    /\ Runs(r, "l_edit_uploading")
    /\ EditThen(r, MsgUploading, "s1_delete_status", "l_edit_video_failed")
    /\ UNCHANGED <<inp, loc, disk, loop>>
    /\ UNCHANGED hookvars

\* Lines 499-500: the edit, then the sleep.
LEditUploading(r) ==
    /\ Runs(r, "l_edit_uploading")
    /\ EditThen(r, MsgUploading, "s1_upload", "l_edit_video_failed")
    /\ UNCHANGED <<inp, loc, disk, loop>>
    /\ UNCHANGED hookvars

\* Lines 508-509: the size message, then raise Exception("File too large").
LEditTooLarge(r) ==
    /\ Runs(r, "l_edit_too_large")
    /\ \E ok \in CallResults :
        /\ Spend(ok)
        /\ IF ok THEN Show(r, MsgTooLarge) ELSE UNCHANGED shown
        /\ Log(r, <<Ev(IF ok THEN "msg" ELSE "xfail", MsgTooLarge),
                    Ev("stagefail", "s1_size")>>)
        /\ Goto(r, "l_edit_video_failed")
    /\ UNCHANGED <<inp, loc, disk, loop>>
    /\ UNCHANGED hookvars

\* The sleep of line 500 is over; lines 502-517 and 520-521.  AfterFetch,
\* then for a file within the ceiling: reply_video for an .mp4,
\* reply_document otherwise; then os.remove(video_path).
S1Upload(r) ==
    /\ Runs(r, "s1_upload")
    /\ \E sent \in CallResults, removed \in CallResults :
        IF AfterFetch(r) = "l_edit_video_failed"
        THEN /\ Log(r, <<Ev("stagefail", "s1_missing")>>)
             /\ Goto(r, "l_edit_video_failed")
             /\ UNCHANGED <<disk, faultsLeft>>
        ELSE IF AfterFetch(r) = "l_edit_too_large"
        THEN /\ Goto(r, "l_edit_too_large")
             /\ UNCHANGED <<disk, trace, faultsLeft>>
        ELSE Spend(sent /\ removed) /\
        LET kind == S1UploadMethod(loc[r].video_path)
            up == Ev("upload", [kind |-> kind, mb |-> disk[loc[r].video_path]])
        IN  IF ~sent
            THEN /\ Log(r, <<up, Ev("stagefail", "s1_upload")>>)
                 /\ Goto(r, "l_edit_video_failed")
                 /\ UNCHANGED disk
            ELSE IF ~removed
            THEN /\ Log(r, <<up, Ev("delivered", kind), Ev("rmfail", loc[r].video_path)>>)
                 /\ Goto(r, "l_edit_video_failed")
                 /\ UNCHANGED disk
            ELSE /\ Log(r, <<up, Ev("delivered", kind), Ev("remove", loc[r].video_path)>>)
                 /\ Goto(r, "s1_delete_status")
                 /\ disk' = RemoveFile(disk, loc[r].video_path)
    /\ UNCHANGED <<inp, loc, shown, loop>>
    /\ UNCHANGED hookvars

\* Line 518: status_msg.delete().
S1DeleteStatus(r) ==
    /\ Runs(r, "s1_delete_status")
    /\ \E ok \in CallResults :
        Spend(ok) /\
        IF ok
        THEN /\ shown' = [shown EXCEPT ![r].state = "deleted"]
             /\ Log(r, <<Ev("status_deleted", "s1")>>)
             /\ Goto(r, "done")
        ELSE /\ Log(r, <<Ev("xfail", Msg("delete"))>>)
             /\ Goto(r, "l_edit_video_failed")
             /\ UNCHANGED shown
    /\ UNCHANGED <<inp, loc, disk, loop>>
    /\ UNCHANGED hookvars

\* Lines 523-549: the handler of every exception of the first try block.
\* The edit is outside the inner try: its failure leaves the handler.  After
\* it, progress_data is reset (line 530), ydl_opts_audio gets a
\* fresh uuid and download_audio is handed to the
\* executor through `loop`, which is unbound (UnboundLocalError, caught at
\* line 563) when the exception came before line 496.
LEditVideoFailed(r) ==
    /\ Runs(r, "l_edit_video_failed")
    /\ \E ok \in CallResults :
        Spend(ok) /\
        IF ~ok
        THEN /\ Log(r, <<Ev("xfail", MsgVideoFailed)>>)
             /\ Goto(r, "error_handler")
             /\ UNCHANGED <<shown, loc, progress_data>>
        ELSE /\ Show(r, MsgVideoFailed)
             /\ progress_data' = [progress_data EXCEPT ![r] = InitProgress]
             /\ \E u \in Uuids :
                  loc' = [loc EXCEPT ![r].unique_id = u, ![r].ydl_format = AudioFormat]
             /\ IF loc[r].loopBound
                THEN /\ Log(r, <<Ev("msg", MsgVideoFailed), Ev("stage", "s2_download")>>)
                     /\ Goto(r, "s2_downloading")
                ELSE /\ Log(r, <<Ev("msg", MsgVideoFailed)>>)
                     /\ Goto(r, "l_edit_download_failed")
    /\ UNCHANGED <<inp, disk, loop, now, samples>>

\* download_audio ends in the executor and the coroutine resumes (549).
S2DownloadEnd(r) ==
    /\ Runs(r, "s2_downloading")
    /\ \E res \in DownloadResults(AudioExts) :
        LET written == OutPath(inp[r].domain, loc[r].unique_id, res.wrote)
            returned == OutPath(inp[r].domain, loc[r].unique_id, res.ext)
        IN  /\ disk' = IF res.wrote = None THEN disk ELSE WriteFile(disk, written, res.mb)
            /\ Log(r, (IF res.wrote = None THEN << >>
                       ELSE <<Ev("write", [path |-> written, size |-> res.mb])>>)
                      \o (IF res.raised THEN <<Ev("stagefail", "s2_download")>> ELSE << >>))
            /\ loc' = [loc EXCEPT ![r].audio_path = IF res.raised THEN @ ELSE returned]
            /\ Goto(r, IF res.raised THEN "l_edit_download_failed"
                       ELSE "l_edit_uploading_audio")
    /\ UNCHANGED <<inp, shown, loop, faultsLeft>>
    /\ samples' = [samples EXCEPT ![r] = << >>]
    /\ UNCHANGED <<progress_data, now>>

\* Lines 551-552: the edit, then the sleep.
LEditUploadingAudio(r) ==
    /\ Runs(r, "l_edit_uploading_audio")
    /\ EditThen(r, MsgUploadingAudio, "s2_upload", "l_edit_download_failed")
    /\ UNCHANGED <<inp, loc, disk, loop>>
    /\ UNCHANGED hookvars

\* The sleep of line 552 is over; lines 554-557 and 560-561: the file is
\* looked up (no size test here), reply_audio, then os.remove(audio_path).
S2Upload(r) ==
    /\ Runs(r, "s2_upload")
    /\ \E sent \in CallResults, removed \in CallResults :
        IF ~Exists(loc[r].audio_path)
        THEN /\ Log(r, <<Ev("stagefail", "s2_missing")>>)
             /\ Goto(r, "l_edit_download_failed")
             /\ UNCHANGED <<disk, faultsLeft>>
        ELSE Spend(sent /\ removed) /\
        LET kind == S2UploadMethod(loc[r].audio_path)
            up == Ev("upload", [kind |-> kind, mb |-> disk[loc[r].audio_path]])
        IN  IF ~sent
            THEN /\ Log(r, <<up, Ev("stagefail", "s2_upload")>>)
                 /\ Goto(r, "l_edit_download_failed")
                 /\ UNCHANGED disk
            ELSE IF ~removed
            THEN /\ Log(r, <<up, Ev("delivered", kind), Ev("rmfail", loc[r].audio_path)>>)
                 /\ Goto(r, "l_edit_download_failed")
                 /\ UNCHANGED disk
            ELSE /\ Log(r, <<up, Ev("delivered", kind), Ev("remove", loc[r].audio_path)>>)
                 /\ Goto(r, "s2_delete_status")
                 /\ disk' = RemoveFile(disk, loc[r].audio_path)
    /\ UNCHANGED <<inp, loc, shown, loop>>
    /\ UNCHANGED hookvars

\* Line 558.
S2DeleteStatus(r) ==
    /\ Runs(r, "s2_delete_status")
    /\ \E ok \in CallResults :
        Spend(ok) /\
        IF ok
        THEN /\ shown' = [shown EXCEPT ![r].state = "deleted"]
             /\ Log(r, <<Ev("status_deleted", "s2")>>)
             /\ Goto(r, "done")
        ELSE /\ Log(r, <<Ev("xfail", Msg("delete"))>>)
             /\ Goto(r, "l_edit_download_failed")
             /\ UNCHANGED shown
    /\ UNCHANGED <<inp, loc, disk, loop>>
    /\ UNCHANGED hookvars

\* Lines 563-590: the handler of every exception of the second try block;
\* its edit is unguarded.
LEditDownloadFailed(r) ==
    /\ Runs(r, "l_edit_download_failed")
    /\ EditThen(r, MsgDownloadFailed(inp[r].domain), "done", "error_handler")
    /\ UNCHANGED <<inp, loc, disk, loop>>
    /\ UNCHANGED hookvars

LinkStep(r) ==
    \/ LStart(r)
    \/ LEditExtracting(r)
    \/ LEditInitializing(r)
    \/ S1DownloadEnd(r)
    \/ LEditUploading(r)
    \/ LEditTooLarge(r)
    \/ S1Upload(r)
    \/ S1DeleteStatus(r)
    \/ LEditVideoFailed(r)
    \/ S2DownloadEnd(r)
    \/ LEditUploadingAudio(r)
    \/ S2Upload(r)
    \/ S2DeleteStatus(r)
    \/ LEditDownloadFailed(r)


\* --------------------------------------------- progress_hook (357-435)

\* The thread a piece of code runs on.  download_video and download_audio,
\* and with them the hooks yt-dlp calls, run where run_in_executor (lines
\* 497, 549) puts them.
HookThread == "executor"

\* asyncio.get_running_loop() (lines 403, 423, 432) returns the loop only on
\* the thread that runs it, and raises RuntimeError on any other.
HasRunningLoop(thread) == thread = "loop"

\* No throttle: every sample goes on.
ThrottledNever(current_time, last_update) == FALSE

\* Line 365: current_time - progress_data["last_update"] < 1.0.
Throttled(current_time, last_update) == current_time - last_update < TicksPerSecond

\* The dictionaries yt-dlp hands to the hook: status, and whether a total
\* size is known (lines 363, 368, 380, 428).
HookSamples == [status : {"downloading", "finished"}, hasTotal : BOOLEAN]

\* One call of progress_hook(d) during a download, from its first line to
\* its return: the hook waits for nothing.  A 'downloading' sample inside
\* the throttle window returns at line 366.  Any other sample updates
\* progress_data and tries to create the task that edits the status; the
\* RuntimeError of get_running_loop is caught and logged (lines 406, 425,
\* 434), and then no task exists.
ProgressHook(r) ==
    /\ pc[r] \in {"s1_downloading", "s2_downloading"}
    /\ Len(samples[r]) < MaxSamples
    /\ \E d \in HookSamples :
        LET current_time == now
            enqueued == HasRunningLoop(HookThread)
        IN  IF d.status = "downloading"
               /\ Throttled(current_time, progress_data[r].last_update)
            THEN UNCHANGED <<progress_data, samples>>
            ELSE /\ progress_data' =
                      [progress_data EXCEPT ![r] =
                          IF d.status = "downloading"
                          THEN [last_update |-> current_time, status |-> "downloading"]
                          ELSE [@ EXCEPT !.status = "finished"]]
                 /\ samples' = [samples EXCEPT ![r] =
                                   Append(@, [t |-> current_time, status |-> d.status,
                                              enqueued |-> enqueued])]
    /\ UNCHANGED <<inp, pc, loc, shown, disk, loop, trace, faultsLeft, now>>

\* Time passes while a download runs.
Tick ==
    /\ \E r \in Requests : pc[r] \in {"s1_downloading", "s2_downloading"}
    /\ now < StartTime + MaxTicks
    /\ now' = now + 1
    /\ UNCHANGED <<inp, pc, loc, shown, disk, loop, trace, faultsLeft, progress_data, samples>>

\* Next leaves the calls of progress_hook out: the hook runs on the executor
\* thread, changes progress_data only and hands nothing to the event loop.
Next ==
    \E r \in Requests :
        \/ MediaStep(r)
        \/ LinkStep(r)
        \/ ErrorHandler(r)

Spec == Init /\ [][Next]_vars

\* Two requests in flight at once, each served by its own task (the
\* scheduling model of concurrent dispatch): both have arrived, and the
\* event loop runs whichever coroutine is ready.
VoiceInput == [handler |-> "media", allowed |-> TRUE, kind |-> "voice", domain |-> None]

TikTokInput == [handler |-> "link", allowed |-> TRUE, kind |-> None, domain |-> "tiktok.com"]

InitConc ==
    /\ inp \in [Requests -> {VoiceInput, TikTokInput}]
    /\ inp["B"] = VoiceInput
    /\ pc = [r \in Requests |-> "arrived"]
    /\ loc = [r \in Requests |-> InitLoc]
    /\ shown = [r \in Requests |-> NoStatus]
    /\ disk = << >>
    /\ loop = None
    /\ trace = [r \in Requests |-> << >>]
    /\ faultsLeft = ConcFaults
    /\ HookInit

SpecConc == InitConc /\ [][Next]_vars

\* One link request with the calls of progress_hook during its downloads.
InitHook ==
    /\ inp = [r \in Requests |-> IF r = "A" THEN TikTokInput ELSE Absent]
    /\ pc = [r \in Requests |-> IF r = "A" THEN "arrived" ELSE "absent"]
    /\ loc = [r \in Requests |-> InitLoc]
    /\ shown = [r \in Requests |-> NoStatus]
    /\ disk = << >>
    /\ loop = None
    /\ trace = [r \in Requests |-> << >>]
    /\ faultsLeft = ConcFaults
    /\ HookInit

NextHook ==
    \/ \E r \in Requests : LinkStep(r) \/ ErrorHandler(r) \/ ProgressHook(r)
    \/ Tick

\* Spec with the scheduling of app.run_polling(): the event loop resumes a
\* coroutine whose awaited call has returned or raised, and a blocking call
\* that returns or raises lets the loop go on.
SpecFair == Spec /\ WF_vars(Next)

SpecHook == InitHook /\ [][NextHook]_vars

\* Two requests in flight, the second a fetch of the same page as TikTokInput
\* (same title), every call to Telegram succeeding.  error_handler and the
\* resend of line 321 run only after a failed call.
InitPaths ==
    /\ inp \in [Requests -> {VoiceInput, TikTokInput}]
    /\ inp["B"] = TikTokInput
    /\ pc = [r \in Requests |-> "arrived"]
    /\ loc = [r \in Requests |-> InitLoc]
    /\ shown = [r \in Requests |-> NoStatus]
    /\ disk = << >>
    /\ loop = None
    /\ trace = [r \in Requests |-> << >>]
    /\ faultsLeft = 0
    /\ HookInit

NextPaths ==
    \E r \in Requests :
        \/ MStart(r) \/ MGetFile(r) \/ MEditReturn(r) \/ MEditDownloading(r)
        \/ MDownload(r) \/ MEditConverting(r) \/ MTranscodeEnd(r)
        \/ MEditRecognizing(r) \/ MPostEnd(r) \/ MEditHttpStatus(r) \/ MSend(r)
        \/ MExcept(r)
        \/ LinkStep(r)

SpecPaths == InitPaths /\ [][NextPaths]_vars

\* ------------------------------------ process_audio_for_recognition, 81-89

\* Line 24: the default of MAX_SECONDS; line 83: milliseconds per second.
MAX_SECONDS == 30
MsPerSecond == 1000

\* Values of the MAX_SECONDS setting that are looked at.
MaxSecondsValues == {1, 2, MAX_SECONDS}

\* Lengths of the loaded audio lie within Margin ms of the limit, plus the
\* empty clip.
Margin == 100

Durations(max_duration_ms) ==
    {0} \cup {d \in (max_duration_ms - Margin)..(max_duration_ms + Margin) : d >= 0}

Min(a, b) == IF a <= b THEN a ELSE b

\* audio[a:b] of line 88 on a segment of len_ms milliseconds: both ends are
\* clipped to the segment, as slicing does.
Slice(len_ms, a, b) ==
    LET lo == Min(a, len_ms)
        hi == Min(b, len_ms)
    IN  [from |-> lo, len |-> IF hi >= lo THEN hi - lo ELSE 0]

\* A window that starts at the beginning of the track.
start_time_head(duration_ms, max_duration_ms) == 0

\* Line 87.
start_time(duration_ms, max_duration_ms) ==
    (duration_ms - max_duration_ms) \div 2

\* Lines 82-88: the part of the loaded audio that is kept.
Trim(duration_ms, max_duration_ms) ==
    IF duration_ms > max_duration_ms
    THEN LET st == start_time(duration_ms, max_duration_ms)
         IN  Slice(duration_ms, st, st + max_duration_ms)
    ELSE [from |-> 0, len |-> duration_ms]

\* The locals of process_audio_for_recognition after line 79, for each
\* setting and each length of the input.
InitTrim ==
    /\ inp = [r \in Requests |-> IF r = "A" THEN VoiceInput ELSE Absent]
    /\ pc = [r \in Requests |-> IF r = "A" THEN "p_loaded" ELSE "absent"]
    /\ \E m \in MaxSecondsValues :
        \E d \in Durations(m * MsPerSecond) :
            loc = [r \in Requests |->
                     [duration_ms |-> d, max_duration_ms |-> m * MsPerSecond,
                      audio |-> [from |-> 0, len |-> d]]]
    /\ shown = [r \in Requests |-> NoStatus]
    /\ disk = << >>
    /\ loop = "A"
    /\ trace = [r \in Requests |-> << >>]
    /\ faultsLeft = 0
    /\ HookInit

\* Lines 82-89.
PTrim(r) ==
    /\ pc[r] = "p_loaded"
    /\ loc' = [loc EXCEPT ![r].audio = Trim(loc[r].duration_ms, loc[r].max_duration_ms)]
    /\ Goto(r, "p_trimmed")
    /\ UNCHANGED <<inp, shown, disk, loop, trace, faultsLeft>>
    /\ UNCHANGED hookvars

NextTrim == \E r \in Requests : PTrim(r)

SpecTrim == InitTrim /\ [][NextTrim]_vars

\* ------------------------------------------------------- reading a trace

Events(r, e) == {i \in DOMAIN trace[r] : trace[r][i].e = e}

Happened(r, e, a) == \E i \in Events(r, e) : trace[r][i].a = a

Count(r, e, a) == Cardinality({i \in Events(r, e) : trace[r][i].a = a})

\* The request passed the allow-list and (for a link) the test of line 343.
Accepted(r) ==
    /\ inp[r].handler # None
    /\ inp[r].allowed
    /\ inp[r].handler = "link" => inp[r].domain # "other"

\* Failures of a stage: a download, a transcode, the recognition, a size or
\* existence check, an upload, or os.remove().
StageFailures(r) == Events(r, "stagefail") \cup Events(r, "rmfail")

\* Failures of a status call: reply_text, edit_text, delete.
StatusFailures(r) == Events(r, "xfail")

\* The paths request r wrote.
Written(r) == {trace[r][i].a.path : i \in Events(r, "write")}

\* download_video returned a file that exists and exceeds the ceiling.
OversizeFetched(r) ==
    \E i \in Events(r, "write") :
        /\ trace[r][i].a.path = loc[r].video_path
        /\ trace[r][i].a.size > TelegramLimitMB

Stage1Failures == {"s1_download", "s1_missing", "s1_size", "s1_upload"}

Stage1Failed(r) == \E i \in Events(r, "stagefail") : trace[r][i].a \in Stage1Failures

\* Texts that report a failure to the user.
FailureTemplates ==
    {"CouldNotAccessFile", "FailedToProcessAudio", "AudioProcessingFailed",
     "ProcessedTooSmall", "TooManyRequests", "ServiceErrorHttp", "ApiLimitReached",
     "InvalidAudioFormat", "RecognitionFailedApiError", "RecognitionFailedError",
     "RequestTimedOut", "ConnectionFailed", "ServiceUnavailable", "InvalidResponse",
     "RecognitionFailedUnexpected", "ProcessingFailed", "AnErrorOccurred",
     "FileTooLarge", "VideoFailedTryingAudio", "DownloadFailedInstagram",
     "DownloadFailedTikTok", "DownloadFailedGeneric"}

FailureMessages(r) == {i \in Events(r, "msg") : trace[r][i].a.t \in FailureTemplates}

\* requests.post / response.json have produced their outcome.
Posted(r) == loc[r].outcome # NoOutcome

\* The calls that block their thread until the work is done: the transcode,
\* the POST, the two yt-dlp runs.
BlockingStages == {"m_transcoding", "m_posting", "s1_downloading", "s2_downloading"}

\* ------------------------------------------------------------------ claims

\* C1 (as claimed, already where every status call succeeds): once the
\* handling of a request is over, no file that the request wrote is left on
\* disk, in the temporary directory or in downloads/.
C1_NoFileRemains ==
    \A r \in Requests :
        pc[r] = "done" /\ StatusFailures(r) = {} => \A p \in Written(r) : ~Exists(p)

\* C2 (as claimed): a request whose Stage 1 attempt failed has made exactly
\* one Stage 2 download attempt when it ends, and no request makes more than
\* two download attempts.
C2_ExactlyOneStage2 ==
    \A r \in Requests :
        /\ pc[r] = "done" /\ Stage1Failed(r) => Count(r, "stage", "s2_download") = 1
        /\ Count(r, "stage", "s1_download") + Count(r, "stage", "s2_download") <= 2

C4_BlockingOffLoop ==
    \A a \in Requests :
        pc[a] \in BlockingStages =>
            /\ loop # a
            /\ \A b \in Requests \ {a} : pc[b] = "arrived" => loop = None

\* C5 (as claimed): a failed status call changes nothing of the pipeline; so
\* an accepted request none of whose stages failed ends as it does when all
\* status calls succeed: the recognition request was sent (handle_media), one
\* artifact was delivered and the status message deleted (handle_link).
C5_StatusFailureNeverAborts ==
    \A r \in Requests :
        pc[r] = "done" /\ Accepted(r) /\ StageFailures(r) = {} =>
            /\ inp[r].handler = "media" => Count(r, "http", "post") = 1
            /\ inp[r].handler = "link" =>
                  /\ Cardinality(Events(r, "delivered")) = 1
                  /\ Count(r, "stage", "s2_download") = 0

\* C6 (as claimed): no text delivered to the user holds raw error text, and
\* (where every status call succeeded) a finished request has been shown
\* exactly one failure message per stage failure.
C6_OneCleanFailureMessage ==
    \A r \in Requests :
        /\ \A i \in Events(r, "msg") : trace[r][i].a.raw = None
        /\ pc[r] = "done" /\ StatusFailures(r) = {} =>
              Cardinality(FailureMessages(r)) = Cardinality(StageFailures(r))

\* C7: the mapping of the recognition result.  HTTP 429 selects the
\* rate-limited text, any other status but 200 the HTTP-status text, both as
\* "edit and return" exits; a 200 response that is a JSON object with status
\* "success" and no result selects the not-recognized reply; and a delivered
\* final text is the selected one.
C7_ResultMapping ==
    \A r \in Requests :
        Posted(r) /\ ~loc[r].outcome.raised =>
            LET resp == loc[r].outcome.resp
            IN  /\ resp.http = 429 =>
                      /\ loc[r].ret = MsgRateLimited
                      /\ Happened(r, "xfail", MsgRateLimited) \/ loc[r].reply = NoMsg
                      /\ StatusFailures(r) = {} => pc[r] \in {"m_edit_http", "done"}
                      /\ pc[r] = "done" /\ StatusFailures(r) = {}
                            => shown[r].text = MsgRateLimited
                /\ resp.http \notin {200, 429} =>
                      /\ loc[r].ret = MsgHttpStatus
                      /\ Happened(r, "xfail", MsgHttpStatus) \/ loc[r].reply = NoMsg
                      /\ StatusFailures(r) = {} => pc[r] \in {"m_edit_http", "done"}
                      /\ pc[r] = "done" /\ StatusFailures(r) = {}
                            => shown[r].text = MsgHttpStatus
                /\ (/\ resp.http = 200
                    /\ resp.body.json
                    /\ resp.body.isDict
                    /\ resp.body.status = "success"
                    /\ ~resp.body.result.present) =>
                      /\ loc[r].reply = MsgNotRecognized
                      /\ loc[r].reply.t \notin FailureTemplates
                      /\ StatusFailures(r) = {} => pc[r] \in {"m_send", "done"}
                      /\ pc[r] = "done" /\ StatusFailures(r) = {}
                            => shown[r].text = MsgNotRecognized

\* C7 witness: a request answered with HTTP 429 has ended showing the
\* rate-limited text.
C7_Witness ==
    \E r \in Requests :
        /\ pc[r] = "done"
        /\ Posted(r)
        /\ ~loc[r].outcome.raised
        /\ loc[r].outcome.resp.http = 429
        /\ shown[r].text = MsgRateLimited

\* C8 (as claimed): a 200 response whose body is not JSON selects the
\* invalid-response text.
C8_InvalidJsonMessage ==
    \A r \in Requests :
        (/\ Posted(r)
         /\ ~loc[r].outcome.raised
         /\ loc[r].outcome.resp.http = 200
         /\ ~loc[r].outcome.resp.body.json) => loc[r].reply = MsgInvalidResponse

\* C9: a timeout of the POST selects the timed-out text, a connection failure
\* the connection-failed text, the two texts differ, and an exception that is
\* both (ConnectTimeout) selects one of the two.
C9_TimeoutAndUnreachable ==
    /\ MsgTimedOut # MsgConnectionFailed
    /\ \A r \in Requests :
        Posted(r) /\ loc[r].outcome.raised =>
            LET exc == loc[r].outcome.exc
            IN  /\ "Timeout" \in exc /\ "ConnectionError" \notin exc
                      => loc[r].reply = MsgTimedOut
                /\ "ConnectionError" \in exc /\ "Timeout" \notin exc
                      => loc[r].reply = MsgConnectionFailed
                /\ "ConnectionError" \in exc /\ "Timeout" \in exc
                      => loc[r].reply \in {MsgTimedOut, MsgConnectionFailed}
                /\ ("Timeout" \in exc \/ "ConnectionError" \in exc)
                   /\ pc[r] = "done" /\ StatusFailures(r) = {}
                      => shown[r].text = loc[r].reply

\* C9 witness: a request whose POST raised ConnectTimeout has ended showing
\* the timed-out text.
C9_Witness ==
    \E r \in Requests :
        /\ pc[r] = "done"
        /\ Posted(r)
        /\ loc[r].outcome.raised
        /\ loc[r].outcome.exc = ExcConnectTimeout
        /\ shown[r].text = MsgTimedOut

\* The stages of the two pipelines.
StageNames == {"original_download", "transcode", "recognize", "s1_download", "s2_download"}

\* C10: a request sends at most one POST to the recognition endpoint and
\* starts every stage at most once; a Stage 2 download follows a started
\* Stage 1 only; and after a stage failure the only stage that still starts
\* is the Stage 2 download, which no stage follows.
C10_NoRetryButFallback ==
    \A r \in Requests :
        /\ Count(r, "http", "post") <= 1
        /\ \A s \in StageNames : Count(r, "stage", s) <= 1
        /\ \A i \in Events(r, "stage") :
              trace[r][i].a = "s2_download" =>
                  \E j \in Events(r, "stage") : j < i /\ trace[r][j].a = "s1_download"
        /\ \A i \in StageFailures(r) : \A j \in Events(r, "stage") \cup Events(r, "http") :
              j > i =>
                  /\ trace[r][j].e = "stage"
                  /\ trace[r][j].a = "s2_download"
                  /\ trace[r][i].e = "stagefail" => trace[r][i].a \in Stage1Failures

\* C10 witness: a recognition request whose single POST failed has ended.
C10_Witness ==
    \E r \in Requests :
        /\ pc[r] = "done"
        /\ Count(r, "http", "post") = 1
        /\ Happened(r, "stagefail", "recognize")

\* The size-capped selector of the generic profile.
GenericSelector ==
    "bestvideo[ext=mp4][filesize<100M]+bestaudio[ext=m4a]/best[ext=mp4][filesize<100M]/best[filesize<100M]"

\* C11 (as claimed, already where every status call succeeds): an allowed
\* link request whose URL holds neither "instagram.com" nor "tiktok.com" has,
\* when it ends, started a Stage 1 fetch, and the fetch used the generic
\* selector.
C11_UnmatchedDomainFetchedGeneric ==
    \A r \in Requests :
        (/\ pc[r] = "done"
         /\ inp[r].handler = "link"
         /\ inp[r].allowed
         /\ inp[r].domain \notin {"instagram.com", "tiktok.com"}
         /\ StatusFailures(r) = {}) =>
            /\ Count(r, "stage", "s1_download") = 1
            /\ loc[r].ydl_format \in {GenericSelector, AudioFormat}

\* C11 (amended): a Stage 1 fetch for a URL that holds neither
\* "instagram.com" nor "tiktok.com" uses the generic size-capped selector,
\* and such a URL holds "youtube.com" or "youtu.be"; a URL that holds none of
\* the four substrings is never fetched and gets no message at all.
C11_GenericForYouTubeOnly ==
    \A r \in Requests :
        /\ (/\ inp[r].handler = "link"
             /\ inp[r].domain \notin {"instagram.com", "tiktok.com"}
             /\ pc[r] \in {"l_edit_initializing", "s1_downloading"}) =>
                /\ loc[r].ydl_format = GenericSelector
                /\ inp[r].domain \in {"youtube.com", "youtu.be"}
        /\ (inp[r].handler = "link" /\ inp[r].allowed /\ inp[r].domain = "other") =>
                /\ trace[r] = << >>
                /\ pc[r] \in {"arrived", "done"}

\* C11 witness: a youtu.be request is inside its Stage 1 download, started
\* with the generic selector.
C11_Witness ==
    \E r \in Requests :
        /\ inp[r].domain = "youtu.be"
        /\ pc[r] = "s1_downloading"
        /\ loc[r].ydl_format = GenericSelector

\* The fetch attempt of Stage 1 failed: download_video raised, or returned a
\* name under which no file exists.
S1AttemptFailed(r) ==
    Happened(r, "stagefail", "s1_download") \/ Happened(r, "stagefail", "s1_missing")

\* C12: a tiktok.com request whose Stage 1 attempt failed and whose Stage 2
\* download returned a file that was delivered: every artifact delivered for
\* the request was sent with reply_audio, none as video or document, and it
\* was fetched with the audio-only selector after Stage 2 had started.
C12_TikTokFallbackDeliversAudio ==
    \A r \in Requests :
        (/\ inp[r].domain = "tiktok.com"
         /\ S1AttemptFailed(r)
         /\ Events(r, "delivered") # {}) =>
            /\ \A i \in Events(r, "delivered") : trace[r][i].a = "audio"
            /\ \A i \in Events(r, "upload") : trace[r][i].a.kind = "audio"
            /\ Cardinality(Events(r, "delivered")) = 1
            /\ loc[r].ydl_format = AudioFormat
            /\ \A i \in Events(r, "delivered") :
                  \E j \in Events(r, "stage") : j < i /\ trace[r][j].a = "s2_download"

\* C12 witness: a tiktok.com request whose Stage 1 download raised has ended
\* with the audio delivered and the status message deleted.
C12_Witness ==
    \E r \in Requests :
        /\ inp[r].domain = "tiktok.com"
        /\ pc[r] = "done"
        /\ Happened(r, "stagefail", "s1_download")
        /\ Happened(r, "delivered", "audio")
        /\ shown[r].state = "deleted"

\* The request ended with its result: a recognition answer (a match or "not
\* recognized") was shown, or an artifact was delivered.
Succeeded(r) ==
    \/ \E i \in Events(r, "msg") : trace[r][i].a.t \in {"Recognized", "SongNotRecognized"}
    \/ Events(r, "delivered") # {}

\* The request was accepted and ended without its result.
EndedFailed(r) == pc[r] = "done" /\ Accepted(r) /\ ~Succeeded(r)

\* C13 (as claimed, already where every status call succeeds): a request that
\* ended in Failed has been shown a failure message, and none of the files it
\* wrote is left on disk.
C13_FailedShowsMessageAndReleases ==
    \A r \in Requests :
        EndedFailed(r) /\ StatusFailures(r) = {} =>
            /\ FailureMessages(r) # {}
            /\ \A p \in Written(r) : ~Exists(p)

\* The 'downloading' samples of the download in progress that went on to the
\* status update (positions in samples[r]).
DownloadingSamples(r) == {i \in DOMAIN samples[r] : samples[r][i].status = "downloading"}

\* C14: any two 'downloading' samples of one download that got past the
\* throttle are at least one second apart, so at most one 'downloading'
\* update per second can be emitted; and the hook holds the transfer up for
\* nothing: whatever samples were handled, the download can end.
C14_ThrottleOncePerSecond ==
    \A r \in Requests :
        /\ \A i, j \in DownloadingSamples(r) :
              i < j => samples[r][j].t - samples[r][i].t >= TicksPerSecond
        /\ \A i \in DownloadingSamples(r) : progress_data[r].last_update >= samples[r][i].t
        /\ pc[r] = "s1_downloading" => ENABLED S1DownloadEnd(r)
        /\ pc[r] = "s2_downloading" => ENABLED S2DownloadEnd(r)

\* C14 witness: during the Stage 2 download two 'downloading' samples have
\* got past the throttle.
C14_Witness ==
    \E r \in Requests :
        /\ pc[r] = "s2_downloading"
        /\ Cardinality(DownloadingSamples(r)) >= 2

\* C15 (as claimed): every sample that got past the throttle, handled on the
\* executor thread, has put a status edit on the event loop.
C15_SampleEnqueuesEdit ==
    \A r \in Requests :
        \A i \in DOMAIN samples[r] : samples[r][i].enqueued

\* The status updates delivered and the stages started by r, in order.
IsStatusOrStage(ev) == ev.e \in {"msg", "stage"}

StatusAndStages(r) == SelectSeq(trace[r], IsStatusOrStage)

\* C16: a recognition request that ended with its result went through
\* acknowledgment, download of the original, conversion, recognition and
\* result in this order, with one status update delivered per step, each
\* update before the stage it announces started.
C16_RecognitionOrder ==
    \A r \in Requests :
        (/\ inp[r].handler = "media"
         /\ pc[r] = "done"
         /\ Succeeded(r)) =>
            StatusAndStages(r) =
                << Ev("msg", MsgProcessing),
                   Ev("msg", MsgDownloading), Ev("stage", "original_download"),
                   Ev("msg", MsgConverting), Ev("stage", "transcode"),
                   Ev("msg", MsgRecognizing), Ev("stage", "recognize"),
                   Ev("msg", loc[r].reply) >>

\* C16 witness: a voice request has ended showing a recognized song.
C16_Witness ==
    \E r \in Requests :
        /\ inp[r].kind = "voice"
        /\ pc[r] = "done"
        /\ shown[r].text.t = "Recognized"
        /\ Count(r, "stage", "recognize") = 1

\* Position i of trace[r] is a write of path p with size mb.
IsWriteOf(r, i, p, mb) ==
    /\ trace[r][i].e = "write"
    /\ trace[r][i].a = [path |-> p, size |-> mb]

\* C17: on the fetch path an upload is attempted only for a file that a
\* download attempt of the request wrote and returned (Stage 1 for a video or
\* document, Stage 2 - started after Stage 1 had ended without the status
\* deleted - for an audio); the status message is deleted only after an
\* upload succeeded; and a request ends with its status deleted only so.
C17_DoneOnlyThroughUpload ==
    \A r \in Requests :
        inp[r].handler = "link" =>
            /\ \A i \in Events(r, "upload") :
                  LET up == trace[r][i].a
                      path == IF up.kind = "audio" THEN loc[r].audio_path
                              ELSE loc[r].video_path
                      stage == IF up.kind = "audio" THEN "s2_download" ELSE "s1_download"
                  IN  /\ \E j \in Events(r, "stage") : j < i /\ trace[r][j].a = stage
                      /\ \E j \in Events(r, "write") : j < i /\ IsWriteOf(r, j, path, up.mb)
            /\ \A k \in Events(r, "status_deleted") :
                  \E i \in Events(r, "delivered") : i < k
            /\ shown[r].state = "deleted" => Events(r, "status_deleted") # {}
            /\ \A i \in Events(r, "delivered") : i - 1 \in Events(r, "upload")
            /\ \A i, j \in Events(r, "stage") :
                  (i < j /\ trace[r][j].a = "s2_download") =>
                      /\ trace[r][i].a = "s1_download"
                      /\ \A k \in Events(r, "status_deleted") : k > j

\* C17 witness: a request has ended with its video delivered and its status
\* message deleted.
C17_Witness ==
    \E r \in Requests :
        /\ pc[r] = "done"
        /\ Happened(r, "delivered", "video")
        /\ Happened(r, "status_deleted", "s1")
        /\ shown[r].state = "deleted"

\* C18 (as claimed): no upload is attempted for a file above the ceiling,
\* whether Stage 1 or Stage 2 fetched it.
C18_NoOversizeUpload ==
    \A r \in Requests :
        \A i \in Events(r, "upload") : trace[r][i].a.mb <= TelegramLimitMB

\* C19 (as claimed): when the Stage 2 download begins, no file that the
\* Stage 1 attempt of the request wrote is on disk any more.
C19_Stage1FilesGoneBeforeStage2 ==
    \A r \in Requests :
        \A j \in Events(r, "stage") :
            (trace[r][j].a = "s2_download" /\ pc[r] = "s2_downloading") =>
                \A i \in Events(r, "write") : i < j => ~Exists(trace[r][i].a.path)

C21_CenteredWindow ==
    \A r \in Requests :
        pc[r] = "p_trimmed" =>
            LET d == loc[r].duration_ms
                m == loc[r].max_duration_ms
                a == loc[r].audio
                tail == d - (a.from + a.len)
            IN  IF d > m
                THEN /\ a.len = m
                     /\ a.from >= 0
                     /\ tail >= 0
                     /\ tail - a.from \in {0, 1}
                     /\ 2 * a.from \in {d - m - 1, d - m}
                ELSE /\ a.len = d
                     /\ a.from = 0

\* A clip longer than the limit by an odd number of milliseconds was trimmed.
C21_Witness ==
    \E r \in Requests :
        /\ pc[r] = "p_trimmed"
        /\ loc[r].duration_ms > loc[r].max_duration_ms
        /\ (loc[r].duration_ms - loc[r].max_duration_ms) % 2 = 1
        /\ loc[r].audio.from > 0

\* The response of the POST of request r is a positive match.
PositiveMatch(r) ==
    /\ Posted(r)
    /\ ~loc[r].outcome.raised
    /\ loc[r].outcome.resp.http = 200
    /\ loc[r].outcome.resp.body.json
    /\ loc[r].outcome.resp.body.isDict
    /\ loc[r].outcome.resp.body.status = "success"
    /\ loc[r].outcome.resp.body.result.present
    /\ loc[r].outcome.resp.body.result.song # {}

C23_AtMostOneArtifact ==
    \A r \in Requests :
        /\ Cardinality(Events(r, "delivered")) <= 1
        /\ \A i, j \in Events(r, "delivered") :
              i < j => ~(trace[r][i].a \in {"video", "document"} /\ trace[r][j].a = "audio")

\* What the user can be sent on behalf of a refused request: the restriction
\* reply, and error_handler's notice when that reply raised.
RefusalEvents ==
    {Ev(e, m) : e \in {"msg", "xfail"}, m \in {MsgRestricted, MsgErrorOccurred}}

\* C24: a request from a chat outside a non-empty allow-list, to either
\* handler, never gets a status message, a download, a file, a transcode, a
\* recognition call or a fetch; it is answered by one restriction reply and
\* nothing else (error_handler's notice appears only when that reply raised).
C24_RefusedDoesNothing ==
    \A r \in Requests :
        inp[r].handler # None /\ ~inp[r].allowed =>
            /\ pc[r] \in {"arrived", "error_handler", "done"}
            /\ \A i \in DOMAIN trace[r] : trace[r][i] \in RefusalEvents
            /\ Count(r, "msg", MsgRestricted) + Count(r, "xfail", MsgRestricted) <= 1
            /\ Happened(r, "msg", MsgErrorOccurred) \/ Happened(r, "xfail", MsgErrorOccurred)
                  => Happened(r, "xfail", MsgRestricted)
            /\ pc[r] = "done" /\ StatusFailures(r) = {} => trace[r] = <<Ev("msg", MsgRestricted)>>
            /\ loc[r] = InitLoc
            /\ shown[r] = NoStatus
            /\ loop # r
            /\ \A p \in DOMAIN disk : p.dir # TmpDir(r) /\ p \notin Written(r)
            /\ (\A q \in Requests \ {r} : inp[q] = Absent) => disk = << >>

\* C24 witness: a refused link to a fetched domain has ended with the
\* restriction reply as its whole history.
C24_Witness ==
    \E r \in Requests :
        /\ inp[r].handler = "link"
        /\ inp[r].domain = "tiktok.com"
        /\ ~inp[r].allowed
        /\ pc[r] = "done"
        /\ trace[r] = <<Ev("msg", MsgRestricted)>>

\* The texts that announce a step in progress.
ProgressTemplates ==
    {"ProcessingYourAudio", "DownloadingAudioFile", "ProcessingForRecognition",
     "RecognizingSong", "PreparingDownload", "ExtractingVideoInformation",
     "InitializingDownload", "UploadingToTelegram", "FileTooLarge",
     "VideoFailedTryingAudio", "UploadingAudioToTelegram"}

\* The status message of r is not left at a step in progress: it shows a
\* result or a failure text, or it was deleted after an artifact was
\* delivered (or the request never got one).
FinalStatus(r) ==
    \/ shown[r].state = "absent"
    \/ shown[r].state = "deleted" /\ Events(r, "delivered") # {}
    \/ shown[r].state = "live" /\ shown[r].text.t \notin ProgressTemplates

\* Every accepted request ends.
Terminates == \A r \in Requests : Accepted(r) ~> pc[r] = "done"

\* C25: every accepted request eventually ends, and when it has ended its
\* status message shows a final text or was deleted after a delivery; it is
\* never left showing a step in progress.
C25_EndsWithFinalStatus ==
    \A r \in Requests : Accepted(r) ~> (pc[r] = "done" /\ FinalStatus(r))

\* The same with every call to Telegram succeeding.
FinalStatusWithoutStatusFailure ==
    \A r \in Requests :
        pc[r] = "done" /\ Accepted(r) /\ StatusFailures(r) = {} => FinalStatus(r)

====
